---- MODULE Spec2Model ----
(***************************************************************************)
(* Pay-slip splitter of TelesCoop-Utils.                                   *)
(*                                                                         *)
(* Part 1 models pay-slip-splitter.sh statement by statement.  Strings    *)
(* are sequences of one-character strings; an accented letter is written   *)
(* as the letter followed by an apostrophe ("e'" is e-acute).  A PDF is a   *)
(* page count and the text of each page.  The external tools pdftk and     *)
(* pdftotext are part of the environment: badPages are the pages           *)
(* "pdftk cat" cannot extract, writeOk tells whether files can be created  *)
(* under output/.                                                          *)
(*                                                                         *)
(* Part 2 models script.py, the Python successor of the shell script, as   *)
(* its README describes it (the text that follows the TypeScript code in   *)
(* src/api.ts) and, where the README is silent, as the specification does. *)
(*                                                                         *)
(* Part 3 models useApiRequest of api.ts with the Pinia loading store.     *)
(* The requests in flight are a bag: two calls with the same arguments are *)
(* not told apart.  A JavaScript value that may be a boolean, a string,    *)
(* null or an Alert object is a record tagged with its type.               *)
(***************************************************************************)
EXTENDS Integers, Sequences, FiniteSets, Bags, TLC

VARIABLES
    input_file,   \* $1, the script's argument (<<>> when none is given)
    pageCount,    \* NumberOfPages of the input PDF
    pageText,     \* pageText[p]: what pdftotext prints for page p
    badPages,     \* pages for which "pdftk cat" fails
    writeOk,      \* whether pdftk can create files under output/
    date,         \* $date
    names,        \* the names array
    full_names,   \* the full_names array
    i,            \* index of the outer loop (1-based here, 0-based in bash)
    page,         \* $page of the inner loop
    pages,        \* the pages array
    temp,         \* temp.pdf: 0 when absent, else the page it holds
    output,       \* files of output/: file name -> sequence of source pages
    exitStatus,   \* exit status of the script (-1 while running)
    pc,           \* the statement about to run
    \* script.py
    parentFolderName, \* name of the folder the input PDF lies in
    filename,     \* name of the input PDF
    loadOk,       \* whether the employee list can be downloaded
    stage,        \* stage of the pipeline that has completed
    employees,    \* the employee list once loaded
    period,       \* the extracted date (<<>> when absent)
    matches,      \* matches[k]: pages found for employees[k]
    files,        \* files of output/: file name -> sequence of source pages
    \* api.ts and the loading store
    inFlight,     \* bag of the useApiRequest calls awaiting their response
    statePerKey,  \* loadingStore.statePerKey
    visibleKey,   \* loadingStore.visibleKey (<<>> is the empty string)
    message,      \* loadingStore.message
    raised,       \* alertStore.alert(...) calls made by the last call that settled
    overlapped    \* history: the keys on which two calls have been in flight together

shVars == <<input_file, pageCount, pageText, badPages, writeOk, date, names,
            full_names, i, page, pages, temp, output, exitStatus, pc>>

pyVars == <<parentFolderName, filename, loadOk, stage, employees, period,
            matches, files>>

apiVars == <<inFlight, statePerKey, visibleKey, message, raised, overlapped>>

vars == <<shVars, pyVars, apiVars>>

----------------------------------------------------------------------------
(* Bounds and input sets *)

MaxPages == 3

\* page bound of the runs checked for termination
MaxFairPages == 2

NoFile == [f \in {} |-> <<>>]

InputFiles ==
    { <<>>,
      <<"2", "0", "2", "3", "-", "0", "7", " ", "B", "P", ".", "p", "d", "f">>,
      <<"B", "P", ".", "p", "d", "f">> }

PageTexts ==
    { <<"B", "E", "R", "N", "I", "E", "R", " ", "A", "n", "t", "o", "i", "n", "e">>,
      <<"L", "e'", "g", "e", "r", "o", "n", " ", "C", "a", "m", "i", "l", "l", "e">>,
      <<"F", "e", "l", "t", "i", "n", " ", "e", "t", " ", "B", "e", "r", "n", "i", "e", "r">>,
      <<"T", "o", "t", "a", "l">> }

----------------------------------------------------------------------------
(* Program constants *)

FullNames ==
    << "Bernier Antoine", "Feltin Clement", "Madura Quentin", "Andres Alice",
       "Legeron Camille", "Bellec Maxime", "Auge Marc-Antoine" >>

Names ==
    << <<"B", "e", "r", "n", "i", "e", "r">>,
       <<"F", "e", "l", "t", "i", "n">>,
       <<"M", "a", "d", "u", "r", "a">>,
       <<"A", "n", "d", "r", "e", "s">>,
       <<"L", "e", "g", "e", "r", "o", "n">>,
       <<"B", "e", "l", "l", "e", "c">>,
       <<"A", "u", "g", "e">> >>

----------------------------------------------------------------------------
(* Text helpers *)

UpperCase ==
    <<"A", "B", "C", "D", "E", "F", "G", "H", "I", "J", "K", "L", "M", "N", "O",
      "P", "Q", "R", "S", "T", "U", "V", "W", "X", "Y", "Z", "E'">>

LowerCase ==
    <<"a", "b", "c", "d", "e", "f", "g", "h", "i", "j", "k", "l", "m", "n", "o",
      "p", "q", "r", "s", "t", "u", "v", "w", "x", "y", "z", "e'">>

\* grep -i: one character with its case folded
FoldCase(c) ==
    IF \E k \in 1..Len(UpperCase) : UpperCase[k] = c
    THEN LowerCase[CHOOSE k \in 1..Len(UpperCase) : UpperCase[k] = c]
    ELSE c

\* pdftotext $temp_file - | grep -qi "$name": the name occurs in the text,
\* letter case ignored (the names hold no regular-expression operator)
GrepQI(name, text) ==
    \E k \in 1..(Len(text) - Len(name) + 1) :
        \A j \in 1..Len(name) : FoldCase(text[k + j - 1]) = FoldCase(name[j])

\* cut -d ' ' -f 1: the text before the first space, the whole text if none
CutFirstField(s) ==
    IF \E k \in 1..Len(s) : s[k] = " "
    THEN SubSeq(s, 1, (CHOOSE k \in 1..Len(s) :
                          s[k] = " " /\ \A j \in 1..(k - 1) : s[j] # " ") - 1)
    ELSE s

\* "output/${date} ${full_name}.pdf"
OutputName(d, fn) == [period |-> d, fullName |-> fn]

\* what pdftotext reads from temp.pdf (nothing when the file is absent)
TempText(t) == IF t = 0 THEN <<>> ELSE pageText[t]

----------------------------------------------------------------------------
(* The script *)

Init ==
    /\ input_file \in InputFiles
    /\ pageCount \in 1..MaxPages
    /\ pageText \in [1..pageCount -> PageTexts]
    /\ badPages \in SUBSET (1..pageCount)
    /\ writeOk \in BOOLEAN
    /\ date = <<>>
    /\ names = <<>>
    /\ full_names = <<>>
    /\ i = 1
    /\ page = 1
    /\ pages = <<>>
    /\ temp = 0
    /\ output = NoFile
    /\ exitStatus = -1
    /\ pc = "check"
    /\ parentFolderName = <<>>
    /\ filename = <<>>
    /\ loadOk = TRUE
    /\ stage = "Idle"
    /\ employees = <<>>
    /\ period = <<>>
    /\ matches = <<>>
    /\ files = NoFile
    /\ inFlight = EmptyBag
    /\ statePerKey = NoFile
    /\ visibleKey = <<>>
    /\ message = ""
    /\ raised = <<>>
    /\ overlapped = {}

\* lines 5-12: if [ -z "$1" ] ... exit 1
CheckInput ==
    /\ pc = "check"
    /\ IF input_file = <<>>
       THEN pc' = "exit1" /\ exitStatus' = 1
       ELSE pc' = "date" /\ UNCHANGED exitStatus
    /\ UNCHANGED <<input_file, pageCount, pageText, badPages, writeOk, date, names,
                   full_names, i, page, pages, temp, output>>
    /\ UNCHANGED <<pyVars, apiVars>>

\* lines 14-15: date=$(cut -d ' ' -f 1 <<< "$input_file")
ExtractDate ==
    /\ pc = "date"
    /\ date' = CutFirstField(input_file)
    /\ pc' = "names"
    /\ UNCHANGED <<input_file, pageCount, pageText, badPages, writeOk, names,
                   full_names, i, page, pages, temp, output, exitStatus>>
    /\ UNCHANGED <<pyVars, apiVars>>

\* lines 17-21: the two arrays
SetNames ==
    /\ pc = "names"
    /\ names' = Names
    /\ full_names' = FullNames
    /\ i' = 1
    /\ pc' = "loop"
    /\ UNCHANGED <<input_file, pageCount, pageText, badPages, writeOk, date,
                   page, pages, temp, output, exitStatus>>
    /\ UNCHANGED <<pyVars, apiVars>>

\* lines 25-34: head of the outer loop, pages=(), head of the inner loop
KeepPages == pages

ResetPages == <<>>

NextName ==
    /\ pc = "loop"
    /\ IF i > Len(names)
       THEN pc' = "cleanup" /\ UNCHANGED <<page, pages>>
       ELSE pc' = "scan" /\ page' = 1 /\ pages' = ResetPages
    /\ UNCHANGED <<input_file, pageCount, pageText, badPages, writeOk, date, names,
                   full_names, i, temp, output, exitStatus>>
    /\ UNCHANGED <<pyVars, apiVars>>

\* line 43: pages+=($page)
PrependPage(ps, p) == <<p>> \o ps

AddPageTwice(ps, p) == Append(Append(ps, p), p)

AddPage(ps, p) == Append(ps, p)

\* after a failed tool call the script goes on with the next statement
AbortOnFailure(ok) ==
    IF ~ok THEN "exit1" ELSE IF page = pageCount THEN "write" ELSE "scan"

AfterScan(ok) == IF page = pageCount THEN "write" ELSE "scan"

\* lines 35-45: one turn of the inner loop
ScanPage ==
    /\ pc = "scan"
    /\ LET ok == page \notin badPages
           t  == IF ok THEN page ELSE temp
       IN  /\ temp' = t
           /\ pages' = IF GrepQI(names[i], TempText(t))
                       THEN AddPage(pages, page) ELSE pages
           /\ pc' = AfterScan(ok)
    /\ page' = page + 1
    /\ UNCHANGED <<input_file, pageCount, pageText, badPages, writeOk, date, names,
                   full_names, i, output, exitStatus>>
    /\ UNCHANGED <<pyVars, apiVars>>

\* line 48: [ ${#pages[@]} -gt 0 ]
AlwaysWrite(ps) == TRUE

HasPages(ps) == Len(ps) > 0

\* lines 47-51: pdftk cat ${pages[@]} output "output/${date} ${full_name}.pdf"
WriteOutput ==
    /\ pc = "write"
    /\ IF HasPages(pages) /\ writeOk /\ \A k \in 1..Len(pages) : pages[k] \notin badPages
       THEN output' = (OutputName(date, full_names[i]) :> pages) @@ output
       ELSE UNCHANGED output
    /\ i' = i + 1
    /\ pc' = "loop"
    /\ UNCHANGED <<input_file, pageCount, pageText, badPages, writeOk, date, names,
                   full_names, page, pages, temp, exitStatus>>
    /\ UNCHANGED <<pyVars, apiVars>>

\* line 54: temp.pdf after rm $temp_file
NotRemoved(t) == t

Removed(t) == 0

\* lines 53-54: rm $temp_file, whose status is the script's
Cleanup ==
    /\ pc = "cleanup"
    /\ temp' = Removed(temp)
    /\ exitStatus' = IF temp = 0 THEN 1 ELSE 0
    /\ pc' = "done"
    /\ UNCHANGED <<input_file, pageCount, pageText, badPages, writeOk, date, names,
                   full_names, i, page, pages, output>>
    /\ UNCHANGED <<pyVars, apiVars>>

Next ==
    \/ CheckInput
    \/ ExtractDate
    \/ SetNames
    \/ NextName
    \/ ScanPage
    \/ WriteOutput
    \/ Cleanup

Spec == Init /\ [][Next]_vars

\* the script runs its statements one after the other until it exits
FairInit == Init /\ pageCount <= MaxFairPages

FairSpec == FairInit /\ [][Next]_vars /\ WF_vars(Next)

----------------------------------------------------------------------------
(* Text comparison and vocabulary of the properties *)

NoFault == badPages = {} /\ writeOk

IsSubstring(a, b) ==
    \E k \in 1..(Len(b) - Len(a) + 1) : SubSeq(b, k, k + Len(a) - 1) = a

LowerCased(s) == [k \in 1..Len(s) |-> FoldCase(s[k])]

\* the text holds the name, letter case ignored
TextContains(text, name) == IsSubstring(LowerCased(name), LowerCased(text))

StripAccent(c) == IF c = "e'" THEN "e" ELSE IF c = "E'" THEN "E" ELSE c

\* NameNormalizer.normalize: diacritics stripped, lower-cased
Normalize(s) == [k \in 1..Len(s) |-> FoldCase(StripAccent(s[k]))]

NormalizedContains(text, name) == IsSubstring(Normalize(name), Normalize(text))

PagesOf(k) == {p \in 1..pageCount : TextContains(pageText[p], Names[k])}

Ascending(S) ==
    CHOOSE s \in [1..Cardinality(S) -> S] :
        \A a, b \in 1..Cardinality(S) : a < b => s[a] < s[b]

StrictlyIncreasingInRange(s) ==
    /\ \A k \in 1..Len(s) : s[k] \in 1..pageCount
    /\ \A a, b \in 1..Len(s) : a < b => s[a] < s[b]

RECURSIVE SumOver(_)
SumOver(F) ==
    IF F = {} THEN 0
    ELSE LET f == CHOOSE x \in F : TRUE
         IN  Len(output[f]) + SumOver(F \ {f})

SumPages == SumOver(DOMAIN output)

NoSharedPage ==
    \A p \in 1..pageCount : Cardinality({k \in 1..Len(Names) : p \in PagesOf(k)}) <= 1

IsDigit(c) == c \in {"0", "1", "2", "3", "4", "5", "6", "7", "8", "9"}

\* ^\d{4}(-\d{2})?$
IsPeriod(s) ==
    \/ Len(s) = 4 /\ \A k \in 1..4 : IsDigit(s[k])
    \/ /\ Len(s) = 7
       /\ \A k \in 1..4 : IsDigit(s[k])
       /\ s[5] = "-"
       /\ IsDigit(s[6]) /\ IsDigit(s[7])

----------------------------------------------------------------------------
(* script.py *)

MaxPyPages == 2

PeriodePrefix ==
    <<"P", "e'", "r", "i", "o", "d", "e", " ", "d", "e", " ", "p", "a", "i", "e",
      " ", ":", " ", "d", "u", " ">>

PyPageTexts ==
    { PeriodePrefix \o
        <<"0", "1", "/", "0", "7", "/", "2", "0", "2", "3", " ",
          "B", "E", "R", "N", "I", "E", "R", " ", "A", "n", "t", "o", "i", "n", "e">>,
      <<"L", "e'", "g", "e", "r", "o", "n", " ", "C", "a", "m", "i", "l", "l", "e">>,
      <<"T", "o", "t", "a", "l", " ", "n", "e", "t">> }

FolderNames ==
    { <<"2", "0", "2", "4", "-", "0", "3">>,
      <<"2", "0", "2", "4", "_", "0", "3">>,
      <<"2", "0", "2", "2", " ", "P", "a", "r", "t", "i", "c", "i", "p", "a", "t", "i", "o", "n">>,
      <<"i", "n", "p", "u", "t">> }

FileNames ==
    { <<"B", "P", "_", "2", "0", "2", "5", "-", "0", "9", ".", "p", "d", "f">>,
      <<"B", "P", " ", "0", "9", "-", "2", "0", "2", "5", ".", "p", "d", "f">>,
      <<"B", "P", "2", "0", "2", "5", "0", "9", ".", "p", "d", "f">>,
      <<"V", "i", "s", "u", "a", "l", "i", "s", "e", "r", "B", "P", "M", "o", "n", "t", "h",
        ".", "p", "d", "f">> }

\* the employee list of the TelesCoop GitHub repository
Directory ==
    [k \in 1..Len(Names) |-> [lastName |-> Names[k], fullName |-> FullNames[k]]]

Least(S) == CHOOSE x \in S : \A y \in S : x <= y

\* s holds n digits from position k on
Digits(s, k, n) == k + n - 1 <= Len(s) /\ \A j \in k..(k + n - 1) : IsDigit(s[j])

CharAt(s, k, c) == k <= Len(s) /\ s[k] = c

\* the date found in a file or folder name, as YYYY-MM or YYYY; the formats are
\* tried in the order YYYY-MM, YYYY_MM, MM-YYYY, YYYYMM, YYYY
ExtractDateFromName(s) ==
    LET P1 == {k \in 1..Len(s) : Digits(s, k, 4) /\ CharAt(s, k + 4, "-") /\ Digits(s, k + 5, 2)}
        P2 == {k \in 1..Len(s) : Digits(s, k, 4) /\ CharAt(s, k + 4, "_") /\ Digits(s, k + 5, 2)}
        P3 == {k \in 1..Len(s) : Digits(s, k, 2) /\ CharAt(s, k + 2, "-") /\ Digits(s, k + 3, 4)}
        P4 == {k \in 1..Len(s) : Digits(s, k, 6)}
        P5 == {k \in 1..Len(s) : Digits(s, k, 4)}
        ym(y, m) == SubSeq(s, y, y + 3) \o <<"-">> \o SubSeq(s, m, m + 1)
    IN  IF P1 # {} THEN ym(Least(P1), Least(P1) + 5)
        ELSE IF P2 # {} THEN ym(Least(P2), Least(P2) + 5)
        ELSE IF P3 # {} THEN ym(Least(P3) + 3, Least(P3))
        ELSE IF P4 # {} THEN ym(Least(P4), Least(P4) + 4)
        ELSE IF P5 # {} THEN SubSeq(s, Least(P5), Least(P5) + 3)
        ELSE <<>>

\* "Date extraction priority": 1. parent folder name, 2. file name
ExtractDateFromFilename(folder, file) ==
    IF ExtractDateFromName(folder) # <<>>
    THEN ExtractDateFromName(folder) ELSE ExtractDateFromName(file)

\* the YYYY-MM of "Periode de paie : du DD/MM/YYYY" in one page's text
ExtractDateFromText(t) ==
    LET n == Len(PeriodePrefix)
        P == {k \in 1..Len(t) :
                 /\ k + n - 1 <= Len(t)
                 /\ SubSeq(t, k, k + n - 1) = PeriodePrefix
                 /\ Digits(t, k + n, 2) /\ CharAt(t, k + n + 2, "/")
                 /\ Digits(t, k + n + 3, 2) /\ CharAt(t, k + n + 5, "/")
                 /\ Digits(t, k + n + 6, 4)}
    IN  IF P = {} THEN <<>>
        ELSE LET k == Least(P) + n
             IN  SubSeq(t, k + 6, k + 9) \o <<"-">> \o SubSeq(t, k + 3, k + 4)

\* extract_date_from_pdf(): the date of the first page that shows one
ExtractDateFromPdf ==
    LET D == {p \in 1..pageCount : ExtractDateFromText(pageText[p]) # <<>>}
    IN  IF D = {} THEN <<>> ELSE ExtractDateFromText(pageText[Least(D)])

\* the name date first, the PDF text only as the fallback
NameDateFirst(folder, file) ==
    IF ExtractDateFromFilename(folder, file) # <<>>
    THEN ExtractDateFromFilename(folder, file) ELSE ExtractDateFromPdf

\* "the extracted date in YYYY-MM format (or the date from the input filename if
\* extraction fails)"
ProcessPdfDate(folder, file) ==
    IF ExtractDateFromPdf # <<>>
    THEN ExtractDateFromPdf ELSE ExtractDateFromFilename(folder, file)

\* name_in_text(): remove_accents() on both sides, letter case ignored
NameInText(name, text) == NormalizedContains(text, name)

\* a download failure that is ignored
IgnoreLoadFailure(ok) == "DirectoryLoaded"

\* "If the employee list cannot be downloaded, the script will exit with an error"
StageAfterLoad(ok) == IF ok THEN "DirectoryLoaded" ELSE "Failed"

PyInit ==
    /\ pageCount \in 1..MaxPyPages
    /\ pageText \in [1..pageCount -> PyPageTexts]
    /\ parentFolderName \in FolderNames
    /\ filename \in FileNames
    /\ loadOk \in BOOLEAN
    /\ stage = "Idle"
    /\ employees = <<>>
    /\ period = <<>>
    /\ matches = <<>>
    /\ files = NoFile
    /\ input_file = <<>>
    /\ badPages = {}
    /\ writeOk = TRUE
    /\ date = <<>>
    /\ names = <<>>
    /\ full_names = <<>>
    /\ i = 1
    /\ page = 1
    /\ pages = <<>>
    /\ temp = 0
    /\ output = NoFile
    /\ exitStatus = -1
    /\ pc = "check"
    /\ inFlight = EmptyBag
    /\ statePerKey = NoFile
    /\ visibleKey = <<>>
    /\ message = ""
    /\ raised = <<>>
    /\ overlapped = {}

\* step 1: download the employee list
LoadEmployees ==
    /\ stage = "Idle"
    /\ stage' = StageAfterLoad(loadOk)
    /\ employees' = IF StageAfterLoad(loadOk) = "Failed" THEN employees ELSE Directory
    /\ UNCHANGED <<parentFolderName, filename, loadOk, period, matches, files>>
    /\ UNCHANGED <<shVars, apiVars>>

\* step 2: the date of the output file names
PyExtractDate ==
    /\ stage = "DirectoryLoaded"
    /\ period' = ProcessPdfDate(parentFolderName, filename)
    /\ stage' = "DateExtracted"
    /\ UNCHANGED <<parentFolderName, filename, loadOk, employees, matches, files>>
    /\ UNCHANGED <<shVars, apiVars>>

\* step 3: search every page for each employee's last name
AssignPages ==
    /\ stage = "DateExtracted"
    /\ matches' = [k \in 1..Len(employees) |->
                      Ascending({p \in 1..pageCount :
                                    NameInText(employees[k].lastName, pageText[p])})]
    /\ stage' = "PagesAssigned"
    /\ UNCHANGED <<parentFolderName, filename, loadOk, employees, period, files>>
    /\ UNCHANGED <<shVars, apiVars>>

\* steps 4-5: one PDF per employee found, "[YYYY-MM] [Employee Name].pdf"
WriteFiles ==
    /\ stage = "PagesAssigned"
    /\ LET K == {k \in 1..Len(employees) : matches[k] # <<>> /\ period # <<>>}
           name(k) == OutputName(period, employees[k].fullName)
       IN  files' = [f \in {name(k) : k \in K} |->
                        matches[CHOOSE k \in K : name(k) = f]]
    /\ stage' = "FilesWritten"
    /\ UNCHANGED <<parentFolderName, filename, loadOk, employees, period, matches>>
    /\ UNCHANGED <<shVars, apiVars>>

\* the script ends
Finish ==
    /\ stage = "FilesWritten"
    /\ stage' = "Done"
    /\ UNCHANGED <<parentFolderName, filename, loadOk, employees, period, matches, files>>
    /\ UNCHANGED <<shVars, apiVars>>

PyNext ==
    \/ LoadEmployees
    \/ PyExtractDate
    \/ AssignPages
    \/ WriteFiles
    \/ Finish

PySpec == PyInit /\ [][PyNext]_vars

----------------------------------------------------------------------------
(* api.ts and loadingStore.ts *)

\* most calls of useApiRequest awaiting their response at one time
MaxInFlight == 2

\* JavaScript values of the union types boolean | string | null | Alert.
\* An Alert field that is absent is the empty string: the code reads every
\* optional field through "|| default", which treats both alike.
JsBool(b) ==
    [t |-> "boolean", v |-> IF b THEN "true" ELSE "false",
     title |-> "", text |-> "", type |-> ""]

JsString(str) == [t |-> "string", v |-> str, title |-> "", text |-> "", type |-> ""]

JsNull == [t |-> "null", v |-> "", title |-> "", text |-> "", type |-> ""]

JsAlert(title, text, type) ==
    [t |-> "object", v |-> "", title |-> title, text |-> text, type |-> type]

\* JavaScript truthiness
Truthy(x) ==
    CASE x.t = "boolean" -> x.v = "true"
      [] x.t = "string" -> x.v # ""
      [] x.t = "null" -> FALSE
      [] x.t = "object" -> TRUE

\* the (path, customKey) arguments of the calls
Targets ==
    { [path |-> <<"d", "o", "c", "u", "m", "e", "n", "t", "s", "/", "1">>,
       customKey |-> <<>>],
      [path |-> <<"d", "o", "c", "u", "m", "e", "n", "t", "s", "/", "2">>,
       customKey |-> <<>>],
      [path |-> <<"/", "a", "u", "t", "h", "/", "l", "o", "g", "i", "n", "/">>,
       customKey |-> <<>>],
      [path |-> <<"d", "o", "c", "u", "m", "e", "n", "t", "s", "/", "1">>,
       customKey |-> <<"s", "e", "s", "s", "i", "o", "n">>] }

\* the spinnerMessage argument: boolean | string
SpinnerMessages == { JsBool(FALSE), JsBool(TRUE), JsString("Saving") }

Requests ==
    { [path |-> tg.path, customKey |-> tg.customKey, spinnerMessage |-> sp] :
        tg \in Targets, sp \in SpinnerMessages }

\* the onSuccess argument: Alert | string | null
OnSuccessValues ==
    { JsNull, JsString(""), JsString("Saved"), JsAlert("Saved", "", ""),
      JsAlert("Saved", "All good", "info") }

\* the onError argument: Alert | string | boolean
OnErrorValues ==
    { JsBool(FALSE), JsBool(TRUE), JsString(""), JsString("Failed"),
      JsAlert("Failed", "", ""), JsAlert("Failed", "_responseBody", ""),
      JsAlert("Done", "", "success") }

\* what useAsyncData hands back: error.value is null, or an error with a
\* message and the response body (a string, an array of strings or another
\* value); joined is the array's join(". "), json is JSON.stringify(data)
Responses ==
    { [failed |-> FALSE, message |-> "", data |-> "", joined |-> "", json |-> ""],
      [failed |-> TRUE, message |-> "404 Not Found", data |-> "string",
       joined |-> "No such document", json |-> "\"No such document\""],
      [failed |-> TRUE, message |-> "400 Bad Request", data |-> "array",
       joined |-> "Too short. Too common", json |-> "[\"Too short\",\"Too common\"]"],
      [failed |-> TRUE, message |-> "500 Server Error", data |-> "object",
       joined |-> "", json |-> "{\"detail\":\"crash\"}"] }

\* String.prototype.toUpperCase on one character
ToUpperCase(c) ==
    IF \E k \in 1..Len(LowerCase) : LowerCase[k] = c
    THEN UpperCase[CHOOSE k \in 1..Len(LowerCase) : LowerCase[k] = c]
    ELSE c

\* path.split("/")
RECURSIVE Split(_)
Split(path) ==
    IF \E k \in 1..Len(path) : path[k] = "/"
    THEN LET k == CHOOSE n \in 1..Len(path) :
                      path[n] = "/" /\ \A j \in 1..(n - 1) : path[j] # "/"
         IN  <<SubSeq(path, 1, k - 1)>> \o Split(SubSeq(path, k + 1, Len(path)))
    ELSE <<path>>

\* /^\d+$/.test(word)
IsNumber(word) == Len(word) > 0 /\ \A k \in 1..Len(word) : IsDigit(word[k])

\* word[0].toUpperCase() + word.slice(1); on an empty word the code throws,
\* no path of Targets has one
Capitalize(word) == <<ToUpperCase(word[1])>> \o SubSeq(word, 2, Len(word))

\* words.join("")
RECURSIVE Join(_)
Join(words) == IF words = <<>> THEN <<>> ELSE Head(words) \o Join(Tail(words))

makeLoadingKey(path) ==
    LET p1 == IF Len(path) > 0 /\ path[Len(path)] = "/"
              THEN SubSeq(path, 1, Len(path) - 1) ELSE path
        p2 == IF Len(p1) > 0 /\ p1[1] = "/" THEN SubSeq(p1, 2, Len(p1)) ELSE p1
        words == SelectSeq(Split(p2), LAMBDA word : ~IsNumber(word))
    IN  Join([ix \in 1..Len(words) |->
                 IF ix = 1 THEN words[ix] ELSE Capitalize(words[ix])])

\* let key = customKey; if (key === "") key = makeLoadingKey(path)
Key(req) == IF req.customKey = <<>> THEN makeLoadingKey(req.path) ELSE req.customKey

\* this.statePerKey[key] = value
SetState(key, value) ==
    statePerKey' = [k \in DOMAIN statePerKey \cup {key} |->
                       IF k = key THEN value ELSE statePerKey[k]]

\* typeof message === "string" ? message : ""
SpinnerText(msg) == IF msg.t = "string" THEN msg.v ELSE ""

markLoading(key, msg) ==
    /\ SetState(key, "loading")
    /\ visibleKey' = IF Truthy(msg) THEN key ELSE <<>>
    /\ message' = SpinnerText(msg)

\* markDone that leaves the state as it is
KeepState(key) == statePerKey' = statePerKey

markDone(key) == SetState(key, "done")

markError(key) == SetState(key, "error")

isLoading(key) == key \in DOMAIN statePerKey /\ statePerKey[key] = "loading"

showLoadingOverlay == visibleKey # <<>> /\ isLoading(visibleKey)

\* the title of the alert built from the API response, "Erreur lors de la
\* requete" with a circumflex on the e of requete
RequestErrorTitle == "Erreur lors de la requete"

\* a text is the sequence of the strings it is concatenated from
Text(str) == IF str = "" THEN <<>> ELSE <<str>>

\* error.value.data as a text: a string as it is, an array joined with ". ",
\* anything else through JSON.stringify
ResponseBody(resp) ==
    CASE resp.data = "string" -> Text(resp.joined)
      [] resp.data = "array" -> Text(resp.joined)
      [] OTHER -> Text(resp.json)

\* alertStore.alert(title, text, type)
Alert(title, text, type) == <<[title |-> title, text |-> text, type |-> type]>>

\* the failure branch that alerts whatever onError is
AlwaysAlert(onError, resp) == Alert(onError.title, <<>>, "error")

\* the alert calls of the branch "if (error.value)"
ErrorAlert(onError, resp) ==
    IF onError = JsBool(TRUE)
    THEN Alert(RequestErrorTitle, <<resp.message, " : ", resp.json>>, "error")
    ELSE IF Truthy(onError)
         THEN IF onError.t = "string"
              THEN Alert(onError.v, <<>>, "error")
              ELSE Alert(onError.title,
                         IF onError.text = "_responseBody"
                         THEN ResponseBody(resp) ELSE Text(onError.text),
                         IF onError.type # "" THEN onError.type ELSE "error")
         ELSE <<>>

\* the alert calls of the else branch
SuccessAlert(onSuccess) ==
    IF Truthy(onSuccess)
    THEN IF onSuccess.t = "string"
         THEN Alert(onSuccess.v, <<>>, "success")
         ELSE Alert(onSuccess.title, Text(onSuccess.text),
                    IF onSuccess.type # "" THEN onSuccess.type ELSE "success")
    ELSE <<>>

InFlightOn(key) == \E call \in BagToSet(inFlight) : call.key = key

ApiInit ==
    /\ inFlight = EmptyBag
    /\ statePerKey = NoFile
    /\ visibleKey = <<>>
    /\ message = ""
    /\ raised = <<>>
    /\ overlapped = {}
    /\ input_file = <<>>
    /\ pageCount = 1
    /\ pageText = <<>>
    /\ badPages = {}
    /\ writeOk = TRUE
    /\ date = <<>>
    /\ names = <<>>
    /\ full_names = <<>>
    /\ i = 1
    /\ page = 1
    /\ pages = <<>>
    /\ temp = 0
    /\ output = NoFile
    /\ exitStatus = -1
    /\ pc = "check"
    /\ parentFolderName = <<>>
    /\ filename = <<>>
    /\ loadOk = TRUE
    /\ stage = "Idle"
    /\ employees = <<>>
    /\ period = <<>>
    /\ matches = <<>>
    /\ files = NoFile

\* useApiRequest up to its await: the key is computed and marked loading, the
\* request is sent.  The call in flight keeps its local variable key.
CallWith(req) ==
    LET key == Key(req)
    IN  /\ BagCardinality(inFlight) < MaxInFlight
        /\ markLoading(key, req.spinnerMessage)
        /\ inFlight' = inFlight (+) SetToBag({[req |-> req, key |-> key]})
        /\ overlapped' = IF InFlightOn(key) THEN overlapped \cup {key} ELSE overlapped
        /\ raised' = <<>>
        /\ UNCHANGED <<shVars, pyVars>>

Call == \E req \in Requests : CallWith(req)

\* useApiRequest from its await to its return: the response has come.  The
\* arguments onSuccess and onError of the call are read here only, and are
\* drawn here.
SettleWith(call, resp, onSuccess, onError) ==
    /\ BagIn(call, inFlight)
    /\ inFlight' = inFlight (-) SetToBag({call})
    /\ IF resp.failed
       THEN markError(call.key) /\ raised' = ErrorAlert(onError, resp)
       ELSE markDone(call.key) /\ raised' = SuccessAlert(onSuccess)
    /\ overlapped' = IF \E other \in BagToSet(inFlight') : other.key = call.key
                     THEN overlapped ELSE overlapped \ {call.key}
    /\ UNCHANGED <<visibleKey, message, shVars, pyVars>>

\* the return of a call that passed neither onSuccess nor onError
Settle ==
    \E call \in BagToSet(inFlight), resp \in Responses :
        SettleWith(call, resp, JsNull, JsBool(FALSE))

ApiNext ==
    \/ Call
    \/ Settle

\* calls that overlap freely and raise no alert
ApiSpec == ApiInit /\ [][ApiNext]_vars

\* a call made when no other is in flight
CallAwaited == inFlight = EmptyBag /\ Call

\* the return of a call with any onSuccess and onError; the argument the
\* taken branch does not read has its default
SettleAwaited ==
    \E call \in BagToSet(inFlight), resp \in Responses :
        IF resp.failed
        THEN \E onError \in OnErrorValues : SettleWith(call, resp, JsNull, onError)
        ELSE \E onSuccess \in OnSuccessValues :
                 SettleWith(call, resp, onSuccess, JsBool(FALSE))

AwaitNext ==
    \/ CallAwaited
    \/ SettleAwaited

\* calls awaited one after the other, with every kind of alert argument
AwaitSpec == ApiInit /\ [][AwaitNext]_vars

----------------------------------------------------------------------------
(* Properties of pay-slip-splitter.sh *)

\* C1: when the split has finished and every tool call succeeded, employee E has
\* an output file if and only if some page's text contains E's last name (letter
\* case ignored), the file holds exactly those pages, each once, in ascending
\* order, and there is no other output file.
C1_SplitByName ==
    (pc = "done" /\ NoFault) =>
        /\ \A k \in 1..Len(Names) :
              LET f == OutputName(date, FullNames[k])
              IN  /\ f \in DOMAIN output <=> PagesOf(k) # {}
                  /\ f \in DOMAIN output => output[f] = Ascending(PagesOf(k))
        /\ DOMAIN output \subseteq {OutputName(date, FullNames[k]) : k \in 1..Len(Names)}

\* C1 witness: a finished fault-free run with a file made of two pages that are
\* not neighbours, and an employee without a file
C1_Witness ==
    /\ pc = "done" /\ NoFault
    /\ \E f \in DOMAIN output : output[f] = <<1, 3>>
    /\ \E k \in 1..Len(Names) : OutputName(date, FullNames[k]) \notin DOMAIN output

C5_ScratchFileRemoved == pc \in {"done", "exit1"} => temp = 0

\* C5 witness: a finished run in which temp.pdf was created, a page extraction
\* failed, and rm found the file to remove
C5_Witness ==
    /\ pc = "done" /\ exitStatus = 0
    /\ badPages # {} /\ temp = 0

\* C6 (as stated): the period token of every output file name matches
\* ^\d{4}(-\d{2})?$.
C6_PeriodTokenWellFormed == \A f \in DOMAIN output : IsPeriod(f.period)

\* C8 (as stated): a page is assigned to an employee if and only if the last
\* name, diacritics stripped and lower-cased, is a substring of the page text,
\* diacritics stripped and lower-cased.
C8_AccentInsensitiveMatch ==
    (pc = "write" /\ NoFault) =>
        \A p \in 1..pageCount :
            (\E k \in 1..Len(pages) : pages[k] = p)
                <=> NormalizedContains(pageText[p], names[i])

\* C9: when no page's text contains any employee's last name, the finished run
\* has written no output file; its exit status is 0 provided the document has a
\* page that can be extracted.
C9_NoMatchNoFile ==
    (pc = "done" /\ \A k \in 1..Len(Names) : PagesOf(k) = {}) =>
        /\ output = NoFile
        /\ badPages # 1..pageCount => exitStatus = 0

\* C9 witness: a finished fault-free run over a document that names nobody
C9_Witness ==
    /\ pc = "done" /\ NoFault
    /\ \A k \in 1..Len(Names) : PagesOf(k) = {}
    /\ exitStatus = 0

\* C10: the page numbers recorded for an employee, in the pages array and in
\* every output file, are strictly increasing (hence without duplicates) and
\* within 1..pageCount.
C10_PagesStrictlyIncreasing ==
    /\ StrictlyIncreasingInRange(pages)
    /\ \A f \in DOMAIN output : StrictlyIncreasingInRange(output[f])

\* C10 witness: an employee with several recorded pages, written to a file
C10_Witness ==
    /\ Len(pages) >= 2
    /\ \E f \in DOMAIN output : Len(output[f]) >= 2

\* C11 (as stated): a failed page extraction aborts the processing of the
\* document: once pdftk has failed on a page (which happens while the first
\* employee is scanned) no output file is written for that document.
C11_FailureAbortsDocument == badPages # {} => output = NoFile

\* the stage of the pipeline the script has completed
Stage ==
    CASE pc \in {"check", "date"} -> "Idle"
      [] pc = "names" -> "DateExtracted"
      [] pc \in {"loop", "scan"} /\ i = 1 -> "DirectoryLoaded"
      [] pc = "write" -> "PagesAssigned"
      [] pc \in {"loop", "scan"} /\ i > 1 -> "FilesWritten"
      [] pc = "cleanup" -> "FilesWritten"
      [] pc = "done" -> "Done"
      [] pc = "exit1" -> "Failed"

----------------------------------------------------------------------------
(* Properties of script.py *)

\* C3: when the employee list cannot be loaded the run ends in the fatal state
\* straight from Idle and stays there: no date is extracted, no page is scanned,
\* no file is written and no employee list, partial or not, is in use.
C3_LoadFailureIsFatal ==
    /\ ~loadOk =>
          /\ stage \in {"Idle", "Failed"}
          /\ employees = <<>> /\ period = <<>> /\ matches = <<>> /\ files = NoFile
    /\ stage = "Failed" => ~loadOk /\ ~ENABLED PyNext

\* C3 witness: the run has failed on the directory load, for a document that has
\* a date and names an employee
C3_Witness ==
    /\ stage = "Failed"
    /\ ExtractDateFromPdf # <<>>
    /\ \E p \in 1..pageCount : NameInText(Names[1], pageText[p])

DateExtracted == stage \in {"DateExtracted", "PagesAssigned", "FilesWritten", "Done"}

----------------------------------------------------------------------------
(* Properties of useApiRequest and the loading store *)

\* the key is loading only while a request on it is in flight, and is loading
\* while a request on it is in flight unless two requests on it have overlapped
LoadingWhileInFlight ==
    /\ \A key \in DOMAIN statePerKey : isLoading(key) => InFlightOn(key)
    /\ \A call \in BagToSet(inFlight) :
           call.key \notin overlapped => isLoading(call.key)

\* a call that enters flight has marked its key loading; the return of a call
\* marks its key error if the request failed, done otherwise
MarksOutcome ==
    /\ \A call \in BagToSet(inFlight') :
           CopiesIn(call, inFlight') > CopiesIn(call, inFlight) =>
               statePerKey'[call.key] = "loading"
    /\ \A call \in BagToSet(inFlight) :
           CopiesIn(call, inFlight') < CopiesIn(call, inFlight) =>
               \A resp \in Responses :
                   SettleWith(call, resp, JsNull, JsBool(FALSE)) =>
                       statePerKey'[call.key] = IF resp.failed THEN "error" ELSE "done"

\* C12: every call of useApiRequest sets the state of its key to "loading" when
\* it sends the request, and to "error" if the request failed, "done" otherwise,
\* when the request settles; as long as no two requests on one key are in flight
\* together, the key is loading exactly while its request is in flight, and no
\* key is loading with no request in flight on it.
C12_LoadingUntilSettled == [](LoadingWhileInFlight) /\ [][MarksOutcome]_vars

\* C12 witness: one request has failed and returned, its key reads "error",
\* while a request on another key, never overlapped, is still in flight.
C12_Witness ==
    /\ \E key \in DOMAIN statePerKey : statePerKey[key] = "error" /\ ~InFlightOn(key)
    /\ \E call \in BagToSet(inFlight) :
           call.key \notin overlapped /\ isLoading(call.key)

\* the title a caller gives with onSuccess or onError: the string itself, or the
\* title of the Alert
CallerTitle(x) == IF x.t = "string" THEN x.v ELSE x.title

\* the alert built from the API response
BuiltFromResponse(resp) ==
    Alert(RequestErrorTitle, <<resp.message, " : ", resp.json>>, "error")

\* the call that returns in this step, if one does
Returns(call) == CopiesIn(call, inFlight') < CopiesIn(call, inFlight)

\* C13 (as stated): a call raises at most one alert.  After a failure it raises
\* none when onError is false, the alert of type "error" built from the API
\* response when onError is true, and an alert with the caller's title for any
\* other onError.  After a success it raises an alert only when onSuccess is
\* given, of type "success" unless the caller gives a type; whether the alert is
\* the one of onSuccess or the one of onError follows the outcome.
C13_AlertByOutcome ==
    [][\A call \in BagToSet(inFlight) : Returns(call) =>
         \A resp \in Responses, onSuccess \in OnSuccessValues, onError \in OnErrorValues :
           SettleWith(call, resp, onSuccess, onError) =>
             /\ Len(raised') <= 1
             /\ resp.failed /\ onError = JsBool(FALSE) => raised' = <<>>
             /\ resp.failed /\ onError = JsBool(TRUE) => raised' = BuiltFromResponse(resp)
             /\ resp.failed /\ onError \notin {JsBool(FALSE), JsBool(TRUE)} =>
                    Len(raised') = 1 /\ raised'[1].title = CallerTitle(onError)
             /\ ~resp.failed /\ onSuccess = JsNull => raised' = <<>>
             /\ ~resp.failed /\ raised' # <<>> =>
                    /\ raised'[1].title = CallerTitle(onSuccess)
                    /\ onSuccess.type = "" => raised'[1].type = "success"
      ]_vars

\* C13 (amended): a call raises at most one alert.  After a failure it raises
\* none when onError is falsy (false or the empty string), the alert of type
\* "error" built from the API response when onError is true, and otherwise an
\* alert with the caller's title, of type "error" unless the caller's Alert
\* gives a type.  After a success it raises none when onSuccess is falsy (null
\* or the empty string), and otherwise an alert with the caller's title, of
\* type "success" unless the caller's Alert gives a type.
C13_AlertByTruthiness ==
    [][\A call \in BagToSet(inFlight) : Returns(call) =>
         \A resp \in Responses, onSuccess \in OnSuccessValues, onError \in OnErrorValues :
           SettleWith(call, resp, onSuccess, onError) =>
             /\ Len(raised') <= 1
             /\ resp.failed /\ ~Truthy(onError) => raised' = <<>>
             /\ resp.failed /\ onError = JsBool(TRUE) => raised' = BuiltFromResponse(resp)
             /\ resp.failed /\ Truthy(onError) /\ onError # JsBool(TRUE) =>
                    /\ Len(raised') = 1
                    /\ raised'[1].title = CallerTitle(onError)
                    /\ raised'[1].type = IF onError.type # "" THEN onError.type ELSE "error"
             /\ ~resp.failed /\ ~Truthy(onSuccess) => raised' = <<>>
             /\ ~resp.failed /\ Truthy(onSuccess) =>
                    /\ Len(raised') = 1
                    /\ raised'[1].title = CallerTitle(onSuccess)
                    /\ raised'[1].type =
                           IF onSuccess.type # "" THEN onSuccess.type ELSE "success"
      ]_vars

\* C13 witness: a call has failed and returned, and has raised one alert of
\* type "error" with the caller's title.
C13_Witness ==
    /\ inFlight = EmptyBag
    /\ \E key \in DOMAIN statePerKey : statePerKey[key] = "error"
    /\ Len(raised) = 1
    /\ raised[1].title = "Failed"
    /\ raised[1].type = "error"

\* C14 (as stated): isLoading(key) is true whenever at least one call on the key
\* is in flight, also when two calls on one key overlap (the same path, or paths
\* that differ in numeric segments only): the first of them to return does not
\* make the key read "done" or "error" while the other is pending.
C14_LoadingWhileAnyInFlight ==
    \A call \in BagToSet(inFlight) : isLoading(call.key)

\* the calls in flight that were started with a truthy spinnerMessage and
\* whose key is in the "loading" state
LoadingWithSpinner ==
    { call \in BagToSet(inFlight) :
        Truthy(call.req.spinnerMessage) /\ isLoading(call.key) }

\* C15 (as stated): showLoadingOverlay is truthy as long as a call started with
\* a truthy spinnerMessage is in the "loading" state, whatever other calls are
\* started or return meanwhile, and the stored message is the message of such a
\* call; it is falsy when no such call is loading.
C15_OverlayWhileSpinnerLoading ==
    /\ LoadingWithSpinner # {} =>
           /\ showLoadingOverlay
           /\ \E call \in LoadingWithSpinner :
                  message = SpinnerText(call.req.spinnerMessage)
    /\ LoadingWithSpinner = {} => ~showLoadingOverlay

====
